---- MODULE Spec2Model ----
(***************************************************************************)
(* Ledger integrity and reconciliation engine of the blockchain file       *)
(* sharing system: Block and Blockchain (src/src/core/blockchain.py) and   *)
(* the file manager's persistence and peer synchronisation                 *)
(* (src/ipfs_file_manager.py).                                             *)
(*                                                                         *)
(* Python objects are modelled by value.  A Block is a record with the     *)
(* attributes of the class, a Blockchain a record [chain, difficulty], a   *)
(* dict a record (fixed keys) or, for the block payload, a sequence of     *)
(* <<key, value>> pairs in insertion order.  Python list positions are     *)
(* 0-based, TLA+ sequences 1-based: chain[i] in the code is chain[i + 1]   *)
(* here.                                                                   *)
(***************************************************************************)
EXTENDS Integers, Sequences, FiniteSets, TLC

(***************************************************************************)
(* Bounds of the model.                                                    *)
(***************************************************************************)
\* longest chain (genesis included) any ledger of the model grows to
MaxLen == 3
\* largest value of the clock read by time.time()
MaxTime == 1
\* largest mining difficulty a ledger is created with
MaxDifficulty == 1

\* longest chain of the file manager and of its peer
MaxSyncLen == MaxLen - 1

(***************************************************************************)
(* Program constants.                                                      *)
(***************************************************************************)
\* Config.BLOCKCHAIN_DIFFICULTY
BLOCKCHAIN_DIFFICULTY == 0

VARIABLES
    blockchain,   \* IPFSFileManager.blockchain: [chain, difficulty]
    store,        \* content of the file blockchain_file
    now,          \* the clock time.time() reads
    peer,         \* the snapshot the name service and blob store serve for the peer
    tampered,     \* history: the single field changed after the fact, if any
    last,         \* history: the operation being returned from, with its
                  \* arguments, its result, the ledger and the store before
                  \* it and, for a sync, whether its temporary file is left
                  \* on disk; NoOp between operations
    requests,     \* the requests the front end is handling, each with its
                  \* position in the function it runs and its local variables
    file_manager  \* the global file_manager of the front end: None, or the
                  \* IPFSFileManager instance, whose ledger is blockchain

vars == <<blockchain, store, now, peer, tampered, last, requests, file_manager>>

Range(s) == {s[i] : i \in DOMAIN s}

NoOp == [op |-> "none"]

\* the request threads of the front end (Flask serves each request in a
\* thread of its own)
Threads == {1, 2}

\* no request is being handled
NoRequests == [t \in Threads |-> [pc |-> "idle"]]

\* file_manager = None
None == [id |-> -1]

\* the instance the main program constructs before the server is started
MainInstance == [id |-> 0]

(***************************************************************************)
(* Payloads: Python dicts, as sequences of <<key, value>> pairs in         *)
(* insertion order.                                                        *)
(***************************************************************************)
GenesisData == << <<"message", "Genesis Block">> >>

FileIds == {"f1", "f2"}

\* the metadata dict of upload_file, reduced to the keys the ledger reads
Metadata(file_id) == << <<"type", "ipfs_file_metadata">>, <<"file_id", file_id>> >>

\* the same mapping built in another insertion order
MetadataReordered(file_id) == << <<"file_id", file_id>>, <<"type", "ipfs_file_metadata">> >>

Payloads == {Metadata(f) : f \in FileIds} \cup {MetadataReordered("f1")}

\* dict.get(key), None modelled as "None"
DictGet(d, key) ==
    IF \E j \in DOMAIN d : d[j][1] = key
    THEN (CHOOSE p \in Range(d) : p[1] = key)[2]
    ELSE "None"

(***************************************************************************)
(* Block.calculate_hash: json.dumps(block_data, sort_keys=True), then      *)
(* SHA-256.                                                                *)
(***************************************************************************)
\* the keys of the model's dicts in the order sort_keys=True emits them
KeyOrder == <<"file_id", "message", "meta", "name", "size", "type">>

\* the keys whose value is itself a dict
NestedKeys == {"meta"}

\* the items of dict d with a key from position k of KeyOrder on, in that
\* order; json.dumps sorts the keys of nested dicts as well
RECURSIVE SortKeysFrom(_, _)
SortKeysFrom(d, k) ==
    IF k > Len(KeyOrder) THEN <<>>
    ELSE LET HasKey(p) == p[1] = KeyOrder[k]
             items == SelectSeq(d, HasKey)
             Sorted(p) == IF p[1] \in NestedKeys
                          THEN <<p[1], SortKeysFrom(p[2], 1)>> ELSE p
         IN  [j \in 1..Len(items) |-> Sorted(items[j])] \o SortKeysFrom(d, k + 1)

\* mutant: json.dumps without sort_keys keeps the insertion order
SortKeys_InsertionOrder(d) == d

\* the items of dict d in sorted key order
SortKeys(d) == SortKeysFrom(d, 1)

\* json.dumps of {"index", "timestamp", "data", "previous_hash", "nonce"} with
\* sort_keys=True: the values in the order data, index, nonce, previous_hash,
\* timestamp, the payload with its keys sorted
json_dumps(b) == <<SortKeys(b.data), b.index, b.nonce, b.previous_hash, b.timestamp>>

\* number of leading '0' characters of the hex digest of block_string: SHA-256
\* is taken as a fixed pseudo-random function of its input
LeadingZeros(block_string) ==
    LET w == (block_string[2] + block_string[3] + block_string[5]
              + Len(block_string[1]) + block_string[4].lead) % 4
    IN  IF w = 0 THEN 2 ELSE IF w = 2 THEN 1 ELSE 0

\* hashlib.sha256(s).hexdigest(): collision-free, so the digest carries its
\* input; lead is the number of leading '0' characters of the hex string
sha256(block_string) == [lead |-> LeadingZeros(block_string), body |-> block_string]

\* the literal "0", previous_hash of a genesis block
ZeroHash == [lead |-> 1, body |-> <<>>]

calculate_hash(b) == sha256(json_dumps(b))

\* Block.__init__
Block(index, timestamp, data, previous_hash) ==
    LET b == [index |-> index, timestamp |-> timestamp, data |-> data,
              previous_hash |-> previous_hash, nonce |-> 0, hash |-> ZeroHash]
    IN  [b EXCEPT !.hash = calculate_hash(b)]

\* mutant: the prefix compared is one character short
MeetsTarget_ShortPrefix(hash, difficulty) == hash.lead >= difficulty - 1

\* self.hash[:difficulty] == "0" * difficulty
MeetsTarget(hash, difficulty) == hash.lead >= difficulty

\* Block.mine_block
RECURSIVE mine_block(_, _)
mine_block(b, difficulty) ==
    IF difficulty = 0 THEN b
    ELSE IF MeetsTarget(b.hash, difficulty) THEN b
    ELSE LET n == [b EXCEPT !.nonce = b.nonce + 1]
         IN  mine_block([n EXCEPT !.hash = calculate_hash(n)], difficulty)

(***************************************************************************)
(* Blockchain                                                              *)
(***************************************************************************)
\* Blockchain.__init__ with create_genesis_block, the clock reading t
Blockchain(difficulty, t) ==
    [chain |-> <<mine_block(Block(0, t, GenesisData, ZeroHash), difficulty)>>,
     difficulty |-> difficulty]

\* Blockchain.__len__
len(bc) == Len(bc.chain)

\* Blockchain.get_latest_block (chain[-1]; the caller has a non-empty chain)
get_latest_block(bc) == bc.chain[Len(bc.chain)]

\* mutant: the appended block keeps the hash its constructor computed
add_block_StaleHash(bc, data, t) ==
    LET latest == get_latest_block(bc)
        built == Block(Len(bc.chain), t, data, latest.hash)
        new_block == [mine_block(built, bc.difficulty) EXCEPT !.hash = built.hash]
    IN  [bc EXCEPT !.chain = Append(bc.chain, new_block)]

\* mutant: the appended block is linked to the first block of the chain
add_block_LinkFirst(bc, data, t) ==
    LET new_block == mine_block(Block(Len(bc.chain), t, data, bc.chain[1].hash),
                                bc.difficulty)
    IN  [bc EXCEPT !.chain = Append(bc.chain, new_block)]

\* Blockchain.add_block, the clock reading t
add_block(bc, data, t) ==
    LET latest == get_latest_block(bc)
        new_block == mine_block(Block(Len(bc.chain), t, data, latest.hash),
                                bc.difficulty)
    IN  [bc EXCEPT !.chain = Append(bc.chain, new_block)]

\* mutant: the last entry is popped, whatever the index
Pop_Last(chain, index) == SubSeq(chain, 1, Len(chain) - 1)

\* list.pop(index), index 0-based
Pop(chain, index) ==
    [j \in 1..(Len(chain) - 1) |-> IF j <= index THEN chain[j] ELSE chain[j + 1]]

\* mutant: the reindex loop renumbers and re-links but does not recompute the hash
ReindexAt_NoRehash(chain, i) ==
    LET b1 == [chain[i + 1] EXCEPT !.index = i]
        b2 == IF i > 0 THEN [b1 EXCEPT !.previous_hash = chain[i].hash] ELSE b1
    IN  [chain EXCEPT ![i + 1] = b2]

\* one pass of the reindex loop of remove_block for 0-based position i
ReindexAt(chain, i) ==
    LET b1 == [chain[i + 1] EXCEPT !.index = i]
        b2 == IF i > 0 THEN [b1 EXCEPT !.previous_hash = chain[i].hash] ELSE b1
        b3 == IF i > 0 THEN [b2 EXCEPT !.hash = calculate_hash(b2)] ELSE b2
    IN  [chain EXCEPT ![i + 1] = b3]

\* for i in range(index, len(self.chain))
RECURSIVE Reindex(_, _)
Reindex(chain, i) ==
    IF i >= Len(chain) THEN chain ELSE Reindex(ReindexAt(chain, i), i + 1)

\* mutant: the guard lets position 0 through
RemoveRefused_GenesisAllowed(bc, index) == index < 0 \/ index >= Len(bc.chain)

\* the guard of remove_block
RemoveRefused(bc, index) == index <= 0 \/ index >= Len(bc.chain)

\* mutant: the entry is popped and the tail is left as it was
remove_block_NoRelink(bc, index) ==
    IF RemoveRefused(bc, index) THEN bc
    ELSE [bc EXCEPT !.chain = Pop(bc.chain, index)]

\* Blockchain.remove_block: the ledger afterwards
remove_block(bc, index) ==
    IF RemoveRefused(bc, index) THEN bc
    ELSE [bc EXCEPT !.chain = Reindex(Pop(bc.chain, index), index)]

\* Blockchain.remove_block: the value returned
remove_block_ret(bc, index) == ~RemoveRefused(bc, index)

\* mutant: the scan checks the links only
HashMatches_Skip(chain, i) == TRUE

\* the two checks of is_chain_valid on 0-based position i
HashMatches(chain, i) == chain[i + 1].hash = calculate_hash(chain[i + 1])
LinkMatches(chain, i) == chain[i + 1].previous_hash = chain[i].hash

\* first position the scan of is_chain_valid visits
ScanStart == 1

\* the scan of is_chain_valid from position i: the verdict, and on failure the
\* position and the message printed
RECURSIVE ValidateFrom(_, _)
ValidateFrom(chain, i) ==
    IF i >= Len(chain) THEN [valid |-> TRUE, at |-> -1, why |-> "ok"]
    ELSE IF ~HashMatches(chain, i) THEN [valid |-> FALSE, at |-> i, why |-> "tampered"]
    ELSE IF ~LinkMatches(chain, i) THEN [valid |-> FALSE, at |-> i, why |-> "broken"]
    ELSE ValidateFrom(chain, i + 1)

\* mutant: every chain is reported valid
is_chain_valid_Trusting(bc) == TRUE

\* Blockchain.is_chain_valid
is_chain_valid(bc) == ValidateFrom(bc.chain, ScanStart).valid

(***************************************************************************)
(* Serialisation: Block.to_dict / from_dict, Blockchain.to_dict /          *)
(* from_dict, json.dump / json.load.  A JSON object is a record of its     *)
(* keys; a file is [kind |-> "absent"], [kind |-> "text", text |-> t] for  *)
(* content that is not JSON, or [kind |-> "json", value |-> v].            *)
(***************************************************************************)
Absent == [kind |-> "absent"]
EmptyText == [kind |-> "text", text |-> ""]
GarbageText == [kind |-> "text", text |-> "{\"difficulty\": 0, \"cha"]

BlockKeys == {"index", "timestamp", "data", "previous_hash", "nonce", "hash"}

\* Block.to_dict
block_to_dict(b) ==
    [index |-> b.index, timestamp |-> b.timestamp, data |-> b.data,
     previous_hash |-> b.previous_hash, nonce |-> b.nonce, hash |-> b.hash]

\* Block.from_dict raises KeyError
block_from_dict_raises(block_dict) == ~(BlockKeys \subseteq DOMAIN block_dict)

\* mutant: the nonce of the document is not restored
block_from_dict_NoNonce(block_dict) ==
    LET block == Block(block_dict.index, block_dict.timestamp, block_dict.data,
                       block_dict.previous_hash)
    IN  [block EXCEPT !.hash = block_dict.hash]

\* Block.from_dict: the constructor computes a hash, then nonce and hash are
\* overwritten with the stored ones
block_from_dict(block_dict) ==
    LET block == Block(block_dict.index, block_dict.timestamp, block_dict.data,
                       block_dict.previous_hash)
    IN  [block EXCEPT !.nonce = block_dict.nonce, !.hash = block_dict.hash]

\* Blockchain.to_dict
to_dict(bc) ==
    [difficulty |-> bc.difficulty,
     chain |-> [j \in 1..Len(bc.chain) |-> block_to_dict(bc.chain[j])]]

\* Blockchain.from_dict raises KeyError
from_dict_raises(blockchain_dict) ==
    \/ "chain" \notin DOMAIN blockchain_dict
    \/ \E j \in DOMAIN blockchain_dict.chain :
           block_from_dict_raises(blockchain_dict.chain[j])

\* Blockchain.from_dict
from_dict(blockchain_dict) ==
    [difficulty |-> IF "difficulty" \in DOMAIN blockchain_dict
                    THEN blockchain_dict.difficulty ELSE 0,
     chain |-> [j \in 1..Len(blockchain_dict.chain) |->
                    block_from_dict(blockchain_dict.chain[j])]]

\* json.dump(d, f) into a file opened with 'w'
json_dump(d) == [kind |-> "json", value |-> d]

\* json.load raises JSONDecodeError
json_load_raises(file) == file.kind # "json"

\* json.load
json_load(file) == file.value

(***************************************************************************)
(* IPFSFileManager._save_blockchain.  open(..., 'w') truncates the file; a  *)
(* failure while writing leaves it cut short.                              *)
(***************************************************************************)
SaveOutcomes == {"ok", "write_error"}

\* the content of blockchain_file after _save_blockchain
save_blockchain(bc, old, save) ==
    IF save = "ok" THEN json_dump(to_dict(bc)) ELSE GarbageText

\* str(e) of the exception _save_blockchain raises
SaveErrorMessage(save) == "No space left on device"

(***************************************************************************)
(* IPFSFileManager._load_or_create_blockchain                              *)
(***************************************************************************)
\* a file holding white space only
BlankText == [kind |-> "text", text |-> " \n"]

\* a file holding the JSON document [], which is not a mapping
NotMapping == [kind |-> "json", value |-> [array |-> <<>>]]

\* a file holding a JSON mapping without the key "chain"
MissingChain == [kind |-> "json", value |-> [difficulty |-> 0]]

\* the document is a JSON object (a dict after json.loads)
IsMapping(blockchain_dict) == "array" \notin DOMAIN blockchain_dict

\* str.strip() on the contents the model's files hold
strip(text) == IF text \in {"", " \n"} THEN "" ELSE text

\* no file manager: its constructor raised
NoLedger == [chain |-> <<>>, difficulty |-> -1]

\* mutant: the fresh ledger is returned without being written to the file
CreateAndSave_NoSave(old, t, write) ==
    [raised |-> FALSE, error |-> "none",
     blockchain |-> Blockchain(BLOCKCHAIN_DIFFICULTY, t), store |-> old]

\* Blockchain(difficulty=BLOCKCHAIN_DIFFICULTY), then open(..., 'w') and
\* json.dump; an error of the write is not caught
CreateAndSave(old, t, write) ==
    LET fresh == Blockchain(BLOCKCHAIN_DIFFICULTY, t)
    IN  IF write = "ok"
        THEN [raised |-> FALSE, error |-> "none",
              blockchain |-> fresh, store |-> save_blockchain(fresh, old, write)]
        ELSE [raised |-> TRUE, error |-> "OSError",
              blockchain |-> NoLedger, store |-> save_blockchain(fresh, old, write)]

\* the exception Blockchain.from_dict raises on a parsed document, "none" if
\* it raises nothing: .get on a list, ["chain"] or a key of an entry missing
from_dict_error(blockchain_dict) ==
    IF ~IsMapping(blockchain_dict) THEN "AttributeError"
    ELSE IF from_dict_raises(blockchain_dict) THEN "KeyError"
    ELSE "none"

\* _load_or_create_blockchain on the file, the clock reading t: whether it
\* raised, the ledger returned and the file afterwards.  The handler catches
\* json.JSONDecodeError and ValueError only.
load_or_create_blockchain(file, t, write) ==
    IF file.kind = "absent" THEN CreateAndSave(file, t, write)
    ELSE IF file.kind = "text"
    THEN \* ValueError("Blockchain file is empty") or json.JSONDecodeError
         CreateAndSave(file, t, write)
    ELSE IF from_dict_error(json_load(file)) # "none"
    THEN [raised |-> TRUE, error |-> from_dict_error(json_load(file)),
          blockchain |-> NoLedger, store |-> file]
    ELSE [raised |-> FALSE, error |-> "none",
          blockchain |-> from_dict(json_load(file)), store |-> file]

(***************************************************************************)
(* IPFSManager: the outcomes of the calls to the IPFS daemon, and the      *)
(* message of the exception each failure raises.                           *)
(***************************************************************************)
ResolveOutcomes == {"ok", "timeout", "not_found", "unreachable"}
GetOutcomes == {"ok", "not_found", "unreachable"}

\* str(e) of the exception IPFSManager.resolve_ipns raises
ResolveErrorMessage(resolve) ==
    CASE resolve = "timeout" -> "IPNS resolution timed out after 30 seconds"
      [] resolve = "not_found" -> "IPNS resolve failed: 500"
      [] OTHER -> "Failed to resolve IPNS: connection refused"

\* str(e) of the exception IPFSManager.get_file raises
GetErrorMessage(get) ==
    IF get = "not_found" THEN "IPFS get failed: 500"
    ELSE "Failed to download from IPFS: connection refused"

(***************************************************************************)
(* IPFSFileManager.sync_from_peer                                          *)
(***************************************************************************)
\* mutant: the handler drops the message of the exception
SyncFailed_NoCause(message) == [success |-> FALSE, message |-> <<"Sync failed">>]

\* the handler of "except Exception as e"
SyncFailed(message) == [success |-> FALSE, message |-> <<"Sync failed: ", message>>]

\* the result returned when the peer ledger does not validate
PeerInvalid == [success |-> FALSE, message |-> <<"Peer blockchain is invalid (tampered)">>]

\* mutant: only a longer peer ledger is adopted
needs_update_LongerOnly(peer_blockchain, bc) == len(peer_blockchain) > len(bc)

\* mutant: the peer ledger is adopted whenever it validates
needs_update_Always(peer_blockchain, bc) == TRUE

\* the comparison of the peer ledger with the local one: needs_update
needs_update(peer_blockchain, bc) ==
    \/ len(peer_blockchain) > len(bc)
    \/ /\ len(peer_blockchain) = len(bc)
       /\ get_latest_block(peer_blockchain).hash # get_latest_block(bc).hash

\* the comparison of the peer ledger with the local one: reason
reason(peer_blockchain, bc) ==
    IF len(peer_blockchain) > len(bc) THEN "Peer has more blocks"
    ELSE IF len(peer_blockchain) = len(bc)
         THEN IF get_latest_block(peer_blockchain).hash # get_latest_block(bc).hash
              THEN "Same length but different content"
              ELSE "Blockchains are identical"
         ELSE "Peer has fewer blocks"

\* mutant: the entries of the peer are appended to the local ones it lacks
Adopt_Merge(peer_blockchain, bc) ==
    [peer_blockchain EXCEPT !.chain =
        bc.chain \o SelectSeq(peer_blockchain.chain,
                              LAMBDA b : b \notin Range(bc.chain))]

\* self.blockchain = peer_blockchain
Adopt(peer_blockchain, bc) == peer_blockchain

\* the part of sync_from_peer after the peer ledger validated: the local
\* ledger, the store, the temporary file and the result afterwards
SyncCompare(peer_blockchain, bc, old, save) ==
    IF len(peer_blockchain) = len(bc) /\ len(bc) = 0
    THEN \* chain[-1] of an empty list
         [blockchain |-> bc, store |-> old, temp_file |-> TRUE,
          result |-> SyncFailed("list index out of range")]
    ELSE IF needs_update(peer_blockchain, bc)
    THEN LET adopted == Adopt(peer_blockchain, bc)
         IN  IF save = "ok"
             THEN [blockchain |-> adopted,
                   store |-> save_blockchain(adopted, old, save),
                   temp_file |-> FALSE,
                   result |-> [success |-> TRUE,
                               message |-> <<"Synced! ", reason(peer_blockchain, bc)>>,
                               blocks |-> len(adopted)]]
             ELSE [blockchain |-> adopted,
                   store |-> save_blockchain(adopted, old, save),
                   temp_file |-> TRUE,
                   result |-> SyncFailed(SaveErrorMessage(save))]
    ELSE [blockchain |-> bc, store |-> old, temp_file |-> FALSE,
          result |-> [success |-> TRUE,
                      message |-> <<"No update needed. ", reason(peer_blockchain, bc)>>,
                      blocks |-> len(bc)]]

\* mutant: the peer ledger is compared without being validated
SyncLoaded_Unvalidated(file, bc, old, save) ==
    IF json_load_raises(file)
    THEN [blockchain |-> bc, store |-> old, temp_file |-> TRUE,
          result |-> SyncFailed("Expecting value: line 1 column 1 (char 0)")]
    ELSE IF from_dict_raises(json_load(file))
    THEN [blockchain |-> bc, store |-> old, temp_file |-> TRUE,
          result |-> SyncFailed("'chain'")]
    ELSE SyncCompare(from_dict(json_load(file)), bc, old, save)

\* the part of sync_from_peer after the snapshot was written to the temporary file
SyncLoaded(file, bc, old, save) ==
    IF json_load_raises(file)
    THEN [blockchain |-> bc, store |-> old, temp_file |-> TRUE,
          result |-> SyncFailed("Expecting value: line 1 column 1 (char 0)")]
    ELSE IF from_dict_raises(json_load(file))
    THEN [blockchain |-> bc, store |-> old, temp_file |-> TRUE,
          result |-> SyncFailed("'chain'")]
    ELSE LET peer_blockchain == from_dict(json_load(file))
         IN  IF ~is_chain_valid(peer_blockchain)
             THEN [blockchain |-> bc, store |-> old, temp_file |-> FALSE,
                   result |-> PeerInvalid]
             ELSE SyncCompare(peer_blockchain, bc, old, save)

\* sync_from_peer: the local ledger, the store, the temporary file and the
\* result afterwards, for the outcomes of resolve_ipns, get_file and
\* _save_blockchain and the snapshot published for the peer
sync_from_peer(bc, old, published, resolve, get, save) ==
    IF resolve # "ok"
    THEN [blockchain |-> bc, store |-> old, temp_file |-> FALSE,
          result |-> SyncFailed(ResolveErrorMessage(resolve))]
    ELSE IF get # "ok"
    THEN [blockchain |-> bc, store |-> old, temp_file |-> FALSE,
          result |-> SyncFailed(GetErrorMessage(get))]
    ELSE SyncLoaded(published, bc, old, save)

(***************************************************************************)
(* IPFSFileManager.upload_file and delete_file                             *)
(***************************************************************************)
AddOutcomes == {"ok", "failed"}
PinOutcomes == {"ok", "failed"}

\* mutant: the block is appended before add_file is called
upload_file_AppendFirst(bc, old, file_id, add, pin, save, t) ==
    LET metadata == Metadata(file_id)
        added == add_block(bc, metadata, t)
    IN  IF add # "ok"
        THEN [blockchain |-> added, store |-> old,
              result |-> [raised |-> TRUE, message |-> "Failed to add file to IPFS"]]
        ELSE IF save = "ok"
        THEN [blockchain |-> added, store |-> save_blockchain(added, old, save),
              result |-> [raised |-> FALSE, metadata |-> metadata]]
        ELSE [blockchain |-> added, store |-> save_blockchain(added, old, save),
              result |-> [raised |-> TRUE, message |-> SaveErrorMessage(save)]]

\* upload_file: the local ledger, the store and the result afterwards, for the
\* outcomes of add_file, pin_file (its result is not read) and _save_blockchain
upload_file(bc, old, file_id, add, pin, save, t) ==
    IF add # "ok"
    THEN [blockchain |-> bc, store |-> old,
          result |-> [raised |-> TRUE, message |-> "Failed to add file to IPFS"]]
    ELSE LET metadata == Metadata(file_id)
             added == add_block(bc, metadata, t)
         IN  IF save = "ok"
             THEN [blockchain |-> added, store |-> save_blockchain(added, old, save),
                   result |-> [raised |-> FALSE, metadata |-> metadata]]
             ELSE [blockchain |-> added, store |-> save_blockchain(added, old, save),
                   result |-> [raised |-> TRUE, message |-> SaveErrorMessage(save)]]

\* the 0-based positions of the blocks that carry file_id
Carriers(bc, file_id) ==
    {i \in 0..(Len(bc.chain) - 1) : DictGet(bc.chain[i + 1].data, "file_id") = file_id}

\* min of a non-empty set of integers
Min(S) == CHOOSE x \in S : \A y \in S : x <= y

\* mutant: the ledger is not saved after the removal
delete_file_NoSave(bc, old, file_id, save) ==
    IF Carriers(bc, file_id) = {}
    THEN [blockchain |-> bc, store |-> old, result |-> [raised |-> FALSE, ret |-> FALSE]]
    ELSE [blockchain |-> remove_block(bc, Min(Carriers(bc, file_id))), store |-> old,
          result |-> [raised |-> FALSE, ret |-> TRUE]]

\* delete_file: the local ledger, the store and the result afterwards
delete_file(bc, old, file_id, save) ==
    IF Carriers(bc, file_id) = {}
    THEN [blockchain |-> bc, store |-> old, result |-> [raised |-> FALSE, ret |-> FALSE]]
    ELSE LET removed == remove_block(bc, Min(Carriers(bc, file_id)))
         IN  IF save = "ok"
             THEN [blockchain |-> removed, store |-> save_blockchain(removed, old, save),
                   result |-> [raised |-> FALSE, ret |-> TRUE]]
             ELSE [blockchain |-> removed, store |-> save_blockchain(removed, old, save),
                   result |-> [raised |-> TRUE, message |-> SaveErrorMessage(save)]]

(***************************************************************************)
(* Changing one field of one entry after the fact.                         *)
(***************************************************************************)
NotTampered == [pos |-> -1, field |-> "none"]

\* the digest of some content no ledger of the model holds
BogusHash == sha256(<<GenesisData, MaxLen + 1, 0, ZeroHash, 0>>)

HashValues(chain) == {ZeroHash, BogusHash} \cup {chain[j].hash : j \in DOMAIN chain}

\* the values a field is changed to
FieldValues(chain, field) ==
    CASE field = "index" -> 0..MaxLen
      [] field = "timestamp" -> 0..(MaxTime + 1)
      [] field = "nonce" -> 0..2
      [] field = "data" -> Payloads \cup {GenesisData}
      [] OTHER -> HashValues(chain)

\* Python's != on the values of a field: dicts compare regardless of order
Differs(field, old, new) ==
    IF field = "data" THEN SortKeys(old) # SortKeys(new) ELSE old # new

\* the chain with field of the entry at 0-based position i set to v
Tamper(chain, i, field, v) == [chain EXCEPT ![i + 1][field] = v]

\* one value of each field that differs from the one block b holds
OtherValue(b, field) ==
    CASE field \in {"index", "timestamp", "nonce"} -> b[field] + 1
      [] field = "data" -> IF SortKeys(b.data) = SortKeys(Metadata("f1"))
                           THEN GenesisData ELSE Metadata("f1")
      [] OTHER -> BogusHash

\* a published snapshot that is not JSON, or lacks the entry list
CorruptDocuments == {GarbageText, json_dump([difficulty |-> 0])}

\* what the blob store may serve for a published snapshot: the snapshot, the
\* snapshot with one field of one entry changed, or a corrupt document
Served(published) ==
    {[file |-> published, tampered |-> NotTampered]}
    \cup {[file |-> [published EXCEPT !.value.chain =
                        Tamper(published.value.chain, i, field,
                               OtherValue(published.value.chain[i + 1], field))],
           tampered |-> [pos |-> i, field |-> field]] :
          i \in 0..(Len(published.value.chain) - 1), field \in BlockKeys}
    \cup {[file |-> c, tampered |-> [pos |-> -1, field |-> "document"]] :
          c \in CorruptDocuments}

(***************************************************************************)
(* Actions of the ledger: Blockchain.add_block, remove_block and           *)
(* is_chain_valid called on the ledger in memory.                          *)
(***************************************************************************)
Tick ==
    /\ last = NoOp
    /\ tampered = NotTampered
    /\ now < MaxTime
    /\ now' = now + 1
    /\ UNCHANGED <<blockchain, store, peer, tampered, last, requests, file_manager>>

\* the operation returned to its caller
Respond ==
    /\ last # NoOp
    /\ last' = NoOp
    /\ UNCHANGED <<blockchain, store, now, peer, tampered, requests, file_manager>>

AddBlock(data) ==
    /\ last = NoOp
    /\ tampered = NotTampered
    /\ len(blockchain) < MaxLen
    /\ blockchain' = add_block(blockchain, data, now)
    /\ last' = [op |-> "add_block", data |-> data, pre |-> blockchain,
                ret |-> get_latest_block(add_block(blockchain, data, now))]
    /\ UNCHANGED <<store, now, peer, tampered, requests, file_manager>>

RemoveBlock(index) ==
    /\ last = NoOp
    /\ tampered = NotTampered
    /\ blockchain' = remove_block(blockchain, index)
    /\ last' = [op |-> "remove_block", index |-> index, pre |-> blockchain,
                ret |-> remove_block_ret(blockchain, index)]
    /\ UNCHANGED <<store, now, peer, tampered, requests, file_manager>>

\* one field of one entry of the ledger in memory is changed
TamperLedger(i, field, v) ==
    /\ last = NoOp
    /\ tampered = NotTampered
    /\ Differs(field, blockchain.chain[i + 1][field], v)
    /\ blockchain' = [blockchain EXCEPT !.chain = Tamper(blockchain.chain, i, field, v)]
    /\ tampered' = [pos |-> i, field |-> field]
    /\ UNCHANGED <<store, now, peer, last, requests, file_manager>>

\* is_chain_valid on the ledger in memory (the handler get_blockchain)
ValidateLedger ==
    /\ last = NoOp
    /\ last' = [op |-> "is_chain_valid", ret |-> is_chain_valid(blockchain),
                scan |-> ValidateFrom(blockchain.chain, ScanStart)]
    /\ UNCHANGED <<blockchain, store, now, peer, tampered, requests, file_manager>>

(***************************************************************************)
(* Actions of the file manager.  The outcome of a call that is not made is *)
(* not drawn.                                                              *)
(***************************************************************************)
UploadFile(file_id, add, pin, save) ==
    /\ last = NoOp
    /\ len(blockchain) < MaxSyncLen
    /\ Carriers(blockchain, file_id) = {}      \* file_id is a fresh uuid4
    /\ add # "ok" => pin = "ok" /\ save = "ok"
    /\ LET r == upload_file(blockchain, store, file_id, add, pin, save, now)
       IN  /\ blockchain' = r.blockchain
           /\ store' = r.store
           /\ last' = [op |-> "upload_file", file_id |-> file_id, add |-> add,
                       pin |-> pin, save |-> save, pre |-> blockchain,
                       pre_store |-> store, ret |-> r.result]
    /\ UNCHANGED <<now, peer, tampered, requests, file_manager>>

DeleteFile(file_id, save) ==
    /\ last = NoOp
    /\ Carriers(blockchain, file_id) = {} => save = "ok"
    /\ LET r == delete_file(blockchain, store, file_id, save)
       IN  /\ blockchain' = r.blockchain
           /\ store' = r.store
           /\ last' = [op |-> "delete_file", file_id |-> file_id, save |-> save,
                       pre |-> blockchain, pre_store |-> store, ret |-> r.result]
    /\ UNCHANGED <<now, peer, tampered, requests, file_manager>>

\* sync_from_peer reaches its call of _save_blockchain
SyncSaves(bc, file, resolve, get) ==
    /\ resolve = "ok" /\ get = "ok"
    /\ ~json_load_raises(file)
    /\ ~from_dict_raises(json_load(file))
    /\ is_chain_valid(from_dict(json_load(file)))
    /\ ~(len(from_dict(json_load(file))) = 0 /\ len(bc) = 0)
    /\ needs_update(from_dict(json_load(file)), bc)

\* sync_from_peer when the name does not resolve or the snapshot is not fetched
SyncUnreached(resolve, get) ==
    /\ last = NoOp
    /\ resolve # "ok" \/ get # "ok"
    /\ resolve = "ok" => peer # Absent         \* only a published name resolves
    /\ resolve # "ok" => get = "ok"
    /\ LET r == sync_from_peer(blockchain, store, peer, resolve, get, "ok")
       IN  /\ blockchain' = r.blockchain
           /\ store' = r.store
           /\ last' = [op |-> "sync_from_peer", resolve |-> resolve, get |-> get,
                       save |-> "ok", served |-> peer, tampered |-> NotTampered,
                       pre |-> blockchain, pre_store |-> store,
                       temp_file |-> r.temp_file, ret |-> r.result]
    /\ UNCHANGED <<now, peer, tampered, requests, file_manager>>

\* sync_from_peer when the blob store serves s for the peer's name
SyncFromPeer(s, save) ==
    /\ last = NoOp
    /\ peer # Absent
    /\ SyncSaves(blockchain, s.file, "ok", "ok") \/ save = "ok"
    /\ LET r == sync_from_peer(blockchain, store, s.file, "ok", "ok", save)
       IN  /\ blockchain' = r.blockchain
           /\ store' = r.store
           /\ last' = [op |-> "sync_from_peer", resolve |-> "ok", get |-> "ok",
                       save |-> save, served |-> s.file, tampered |-> s.tampered,
                       pre |-> blockchain, pre_store |-> store,
                       temp_file |-> r.temp_file, ret |-> r.result]
    /\ UNCHANGED <<now, peer, tampered, requests, file_manager>>

(***************************************************************************)
(* The peer: another node running the same code publishes snapshots of its *)
(* ledger, stamped by its own clock.                                       *)
(***************************************************************************)
\* the peer creates its ledger and publishes it
PeerPublish(difficulty) ==
    /\ last = NoOp
    /\ peer = Absent
    /\ peer' = json_dump(to_dict(Blockchain(difficulty, MaxTime)))
    /\ UNCHANGED <<blockchain, store, now, tampered, last, requests, file_manager>>

\* the reading of the peer's clock: it has not advanced since its last block
PeerNow == get_latest_block(from_dict(peer.value)).timestamp

\* the peer uploads a file and publishes its ledger
PeerUploadFile(file_id) ==
    /\ last = NoOp
    /\ peer # Absent
    /\ len(from_dict(peer.value)) < MaxSyncLen
    /\ Carriers(from_dict(peer.value), file_id) = {}
    /\ peer' = upload_file(from_dict(peer.value), peer, file_id,
                           "ok", "ok", "ok", PeerNow).store
    /\ UNCHANGED <<blockchain, store, now, tampered, last, requests, file_manager>>

\* the peer deletes a file and publishes its ledger
PeerDeleteFile(file_id) ==
    /\ last = NoOp
    /\ peer # Absent
    /\ Carriers(from_dict(peer.value), file_id) # {}
    /\ peer' = delete_file(from_dict(peer.value), peer, file_id, "ok").store
    /\ UNCHANGED <<blockchain, store, now, tampered, last, requests, file_manager>>

(***************************************************************************)
(* The store on disk between two runs of the node.                         *)
(***************************************************************************)
\* the file with the key "hash" of its last entry missing
DropHash(file) ==
    LET chain == file.value.chain
        e == chain[Len(chain)]
    IN  [file EXCEPT !.value.chain[Len(chain)] =
            [index |-> e.index, timestamp |-> e.timestamp, data |-> e.data,
             previous_hash |-> e.previous_hash, nonce |-> e.nonce]]

\* the file holds a document with a list of complete entries
HoldsLedger(file) ==
    /\ file.kind = "json"
    /\ from_dict_error(json_load(file)) = "none"

\* what a damaged or replaced file may hold
StoreDamage(file) ==
    {Absent, EmptyText, BlankText, GarbageText, NotMapping, MissingChain}
    \cup (IF HoldsLedger(file) THEN {DropHash(file)} ELSE {})

\* a file manager is running
Running == blockchain # NoLedger

\* the file is damaged while no operation is in progress
CorruptStore(c) ==
    /\ last = NoOp
    /\ c # store
    /\ store' = c
    /\ UNCHANGED <<blockchain, now, peer, tampered, last, requests, file_manager>>

\* the node is started again: IPFSFileManager.__init__ calls
\* _load_or_create_blockchain
Load(write) ==
    /\ last = NoOp
    /\ store.kind = "json" => write = "ok"       \* nothing is written
    /\ LET r == load_or_create_blockchain(store, now, write)
       IN  /\ blockchain' = r.blockchain
           /\ store' = r.store
           /\ last' = [op |-> "load", write |-> write, t |-> now,
                       pre |-> blockchain, pre_store |-> store,
                       raised |-> r.raised, error |-> r.error]
    /\ UNCHANGED <<now, peer, tampered, requests, file_manager>>

(***************************************************************************)
(* Upload requests handled concurrently: upload_files calls upload_file on *)
(* the one shared file manager, and nothing serialises the calls.  A       *)
(* thread may be switched between any two statements.                      *)
(***************************************************************************)
\* the uuid4 each request draws for its file
FileOf(t) == IF t = 1 THEN "f1" ELSE "f2"

\* upload_file up to the metadata: add_file raises, or the dict is built
BeginUpload(t, add) ==
    /\ last = NoOp
    /\ requests[t].pc = "idle"
    /\ requests' = [requests EXCEPT ![t] =
           IF add = "ok"
           THEN [pc |-> "add_block", metadata |-> Metadata(FileOf(t))]
           ELSE [pc |-> "done", raised |-> TRUE]]
    /\ UNCHANGED <<blockchain, store, now, peer, tampered, last, file_manager>>

\* add_block: latest = self.get_latest_block()
ReadLatest(t) ==
    /\ requests[t].pc = "add_block"
    /\ requests' = [requests EXCEPT ![t] =
           [pc |-> "new_block", metadata |-> requests[t].metadata,
            latest |-> get_latest_block(blockchain)]]
    /\ UNCHANGED <<blockchain, store, now, peer, tampered, last, file_manager>>

\* add_block: new_block = Block(len(self.chain), time.time(), data,
\* latest.hash) and new_block.mine_block(self.difficulty)
NewBlock(t) ==
    /\ requests[t].pc = "new_block"
    /\ requests' = [requests EXCEPT ![t] =
           [pc |-> "append", metadata |-> requests[t].metadata,
            new_block |-> mine_block(Block(len(blockchain), now, requests[t].metadata,
                                           requests[t].latest.hash),
                                     blockchain.difficulty)]]
    /\ UNCHANGED <<blockchain, store, now, peer, tampered, last, file_manager>>

\* add_block: self.chain.append(new_block)
AppendBlock(t) ==
    /\ requests[t].pc = "append"
    /\ blockchain' = [blockchain EXCEPT !.chain = Append(@, requests[t].new_block)]
    /\ requests' = [requests EXCEPT ![t] =
           [pc |-> "save", metadata |-> requests[t].metadata]]
    /\ UNCHANGED <<store, now, peer, tampered, last, file_manager>>

\* _save_blockchain: open(..., 'w') empties the file and
\* self.blockchain.to_dict() is evaluated
OpenStore(t) ==
    /\ requests[t].pc = "save"
    /\ store' = EmptyText
    /\ requests' = [requests EXCEPT ![t] =
           [pc |-> "write", metadata |-> requests[t].metadata,
            document |-> to_dict(blockchain)]]
    /\ UNCHANGED <<blockchain, now, peer, tampered, last, file_manager>>

\* _save_blockchain: json.dump writes the document and the file is closed;
\* upload_file returns the metadata
WriteStore(t) ==
    /\ requests[t].pc = "write"
    /\ store' = json_dump(requests[t].document)
    /\ requests' = [requests EXCEPT ![t] =
           [pc |-> "done", raised |-> FALSE, metadata |-> requests[t].metadata]]
    /\ UNCHANGED <<blockchain, now, peer, tampered, last, file_manager>>

(***************************************************************************)
(* init_file_manager called by requests that arrive while the global       *)
(* file_manager is None.  No lock is taken; a thread may be switched       *)
(* between any two statements and inside the constructor, which reads      *)
(* files and calls the IPFS daemon.                                        *)
(***************************************************************************)
\* the outcomes of IPFSManager._check_connection
ConnectOutcomes == {"ok", "refused"}

\* if file_manager is None
TestNone(t) ==
    /\ last = NoOp
    /\ requests[t].pc = "idle"
    /\ requests' = [requests EXCEPT ![t] =
           IF file_manager = None THEN [pc |-> "construct"] ELSE [pc |-> "return"]]
    /\ UNCHANGED <<blockchain, store, now, peer, tampered, last, file_manager>>

\* IPFSFileManager(): the ledger is loaded or created, then IPFSManager
\* checks the connection; an exception of either leaves init_file_manager
\* (ConnectionError is printed and raised again)
Construct(t, write, connect) ==
    /\ requests[t].pc = "construct"
    /\ store.kind = "json" => write = "ok"       \* nothing is written
    /\ LET r == load_or_create_blockchain(store, now, write)
       IN  /\ r.raised => connect = "ok"          \* the connection is not checked
           /\ store' = r.store
           /\ requests' = [requests EXCEPT ![t] =
                  IF r.raised
                  THEN [pc |-> "done", raised |-> TRUE, error |-> r.error]
                  ELSE IF connect # "ok"
                  THEN [pc |-> "done", raised |-> TRUE, error |-> "ConnectionError"]
                  ELSE [pc |-> "assign", instance |-> [id |-> t],
                        ledger |-> r.blockchain]]
    /\ UNCHANGED <<blockchain, now, peer, tampered, last, file_manager>>

\* file_manager = <the instance constructed>
Assign(t) ==
    /\ requests[t].pc = "assign"
    /\ file_manager' = requests[t].instance
    /\ blockchain' = requests[t].ledger
    /\ requests' = [requests EXCEPT ![t] =
           [pc |-> "return", instance |-> requests[t].instance]]
    /\ UNCHANGED <<store, now, peer, tampered, last>>

\* return file_manager
Return(t) ==
    /\ requests[t].pc = "return"
    /\ requests' = [requests EXCEPT ![t] =
           IF "instance" \in DOMAIN requests[t]
           THEN [pc |-> "done", raised |-> FALSE, ret |-> file_manager,
                 instance |-> requests[t].instance]
           ELSE [pc |-> "done", raised |-> FALSE, ret |-> file_manager]]
    /\ UNCHANGED <<blockchain, store, now, peer, tampered, last, file_manager>>

(***************************************************************************)
(* Publishing the local ledger: IPFSFileManager.publish_blockchain and the *)
(* front end's /api/publish handler.                                       *)
(***************************************************************************)
PublishOutcomes == {"ok", "failed"}

\* the name publish_to_ipns returns, a str
IpnsName == [str |-> "/ipns/self"]

\* publish_blockchain: the store, the document bound in the name service
\* (Absent when nothing was bound) and the result, for the outcomes of
\* _save_blockchain, add_file and publish_to_ipns
publish_blockchain(bc, old, save, add, publish) ==
    IF save # "ok"
    THEN [store |-> save_blockchain(bc, old, save), published |-> Absent,
          result |-> [raised |-> TRUE, message |-> SaveErrorMessage(save)]]
    ELSE IF add # "ok"
    THEN [store |-> save_blockchain(bc, old, save), published |-> Absent,
          result |-> [raised |-> TRUE, message |-> "Failed to add file to IPFS"]]
    ELSE IF publish # "ok"
    THEN [store |-> save_blockchain(bc, old, save), published |-> Absent,
          result |-> [raised |-> TRUE, message |-> "IPNS publish failed"]]
    ELSE [store |-> save_blockchain(bc, old, save),
          published |-> save_blockchain(bc, old, save),
          result |-> [raised |-> FALSE, value |-> IpnsName]]

\* the value is a dict, which a str key can index
IsDict(value) == "str" \notin DOMAIN value

\* the /api/publish handler on the result of fm.publish_blockchain(): it
\* reads result["ipns"] and result["cid"], and any exception gives a 500
web_publish_blockchain(result) ==
    IF result.raised
    THEN [status |-> 500, success |-> FALSE, error |-> result.message]
    ELSE IF ~IsDict(result.value)
    THEN [status |-> 500, success |-> FALSE,
          error |-> "string indices must be integers"]
    ELSE [status |-> 200, success |-> TRUE,
          ipns |-> result.value.ipns, cid |-> result.value.cid]

\* a POST to /api/publish
WebPublish(save, add, publish) ==
    /\ last = NoOp
    /\ save # "ok" => add = "ok"
    /\ add # "ok" => publish = "ok"
    /\ LET r == publish_blockchain(blockchain, store, save, add, publish)
       IN  /\ store' = r.store
           /\ last' = [op |-> "publish", save |-> save, add |-> add,
                       publish |-> publish, pre |-> blockchain,
                       published |-> r.published, ret |-> r.result,
                       response |-> web_publish_blockchain(r.result)]
    /\ UNCHANGED <<blockchain, now, peer, tampered, requests, file_manager>>

(***************************************************************************)
(* Two syncs in a row: the node syncs again from the same snapshot, or the *)
(* peer syncs back from the node.                                          *)
(***************************************************************************)
\* the snapshot a second call is served: the one the first call fetched, or
\* the peer's published one when the first call fetched nothing
ServedAgain ==
    IF last.resolve = "ok" /\ last.get = "ok" THEN last.served ELSE peer

\* sync_from_peer called a second time, right after the first call returned
SyncAgain(resolve, get, save) ==
    /\ last # NoOp
    /\ last.op = "sync_from_peer"
    /\ "first" \notin DOMAIN last
    /\ resolve = "ok" => peer # Absent
    /\ resolve # "ok" => get = "ok"
    /\ SyncSaves(blockchain, ServedAgain, resolve, get) \/ save = "ok"
    /\ LET r == sync_from_peer(blockchain, store, ServedAgain, resolve, get, save)
       IN  /\ blockchain' = r.blockchain
           /\ store' = r.store
           /\ last' = [op |-> "sync_from_peer", resolve |-> resolve, get |-> get,
                       save |-> save, served |-> ServedAgain,
                       tampered |-> last.tampered,
                       pre |-> blockchain, pre_store |-> store,
                       temp_file |-> r.temp_file, ret |-> r.result,
                       first |-> last]
    /\ UNCHANGED <<now, peer, tampered, requests, file_manager>>

\* the snapshot the node has published: publish_blockchain saves the ledger
\* and binds the saved file to the node's name
Published(bc) == publish_blockchain(bc, Absent, "ok", "ok", "ok").published

\* the peer calls sync_from_peer on the node's name right after the node
\* synced from the peer's published snapshot, and publishes its ledger
SyncBack ==
    /\ last # NoOp
    /\ last.op = "sync_from_peer"
    /\ "first" \notin DOMAIN last
    /\ last.resolve = "ok" /\ last.get = "ok" /\ last.save = "ok"
    /\ last.served = peer
    /\ LET r == sync_from_peer(from_dict(json_load(peer)), peer,
                               Published(blockchain), "ok", "ok", "ok")
       IN  /\ peer' = Published(r.blockchain)
           /\ last' = [op |-> "sync_back", first |-> last,
                       pre |-> from_dict(json_load(peer)), ret |-> r.result]
    /\ UNCHANGED <<blockchain, store, now, tampered, requests, file_manager>>

(***************************************************************************)
(* Block.calculate_hash on pairs of blocks whose payloads hold the same    *)
(* mapping built in different orders, a nested mapping included.           *)
(***************************************************************************)
\* a nested dict in its two insertion orders, and one with another value
MetaDicts ==
    {<< <<"name", "a.txt">>, <<"size", "10">> >>,
     << <<"size", "10">>, <<"name", "a.txt">> >>,
     << <<"name", "a.txt">>, <<"size", "11">> >>}

\* payloads with a nested dict, in both insertion orders of the outer dict
NestedPayloads ==
    {<< <<"file_id", "f1">>, <<"meta", m>> >> : m \in MetaDicts}
    \cup {<< <<"meta", m>>, <<"file_id", "f1">> >> : m \in MetaDicts}

DigestPayloads == NestedPayloads \cup {Metadata("f1"), MetadataReordered("f1")}

\* two blocks are built with the same index, timestamp, previous_hash and
\* nonce, the second with another stored hash, and both are hashed
HashBlocks(data_a, data_b, index, timestamp, previous_hash, nonce) ==
    /\ last = NoOp
    /\ LET a == [Block(index, timestamp, data_a, previous_hash) EXCEPT !.nonce = nonce]
           b == [Block(index, timestamp, data_b, previous_hash) EXCEPT
                     !.nonce = nonce, !.hash = BogusHash]
       IN  last' = [op |-> "calculate_hash", a |-> a, b |-> b,
                    hash_a |-> calculate_hash(a), hash_b |-> calculate_hash(b)]
    /\ UNCHANGED <<blockchain, store, now, peer, tampered, requests, file_manager>>

(***************************************************************************)
(* Specifications                                                          *)
(***************************************************************************)
\* the file manager after construction on a node without a store:
\* _load_or_create_blockchain creates the ledger and saves it
Init ==
    /\ now = 0
    /\ blockchain = Blockchain(BLOCKCHAIN_DIFFICULTY, now)
    /\ store = json_dump(to_dict(blockchain))
    /\ peer = Absent
    /\ tampered = NotTampered
    /\ last = NoOp
    /\ requests = NoRequests
    /\ file_manager = MainInstance

Next ==
    \/ Respond
    \/ \E f \in FileIds, add \in AddOutcomes, pin \in PinOutcomes, save \in SaveOutcomes :
           UploadFile(f, add, pin, save)
    \/ \E f \in FileIds, save \in SaveOutcomes : DeleteFile(f, save)
    \/ \E resolve \in ResolveOutcomes, get \in GetOutcomes : SyncUnreached(resolve, get)
    \/ /\ peer # Absent
       /\ \E s \in Served(peer), save \in SaveOutcomes : SyncFromPeer(s, save)
    \/ \E d \in {0, MaxDifficulty} : PeerPublish(d)
    \/ \E f \in FileIds : PeerUploadFile(f)
    \/ \E f \in FileIds : PeerDeleteFile(f)

\* the file manager and its peer; the two clocks differ and do not advance
Spec == Init /\ [][Next]_vars

\* a ledger made by Blockchain(difficulty)
InitLedger ==
    /\ now = 0
    /\ \E d \in 0..MaxDifficulty : blockchain = Blockchain(d, now)
    /\ store = Absent
    /\ peer = Absent
    /\ tampered = NotTampered
    /\ last = NoOp
    /\ requests = NoRequests
    /\ file_manager = MainInstance

NextLedger ==
    \/ Tick
    \/ Respond
    \/ \E data \in Payloads : AddBlock(data)
    \/ \E index \in -1..(MaxLen + 1) : RemoveBlock(index)

\* a ledger under Create, Append and Remove only
SpecLedger == InitLedger /\ [][NextLedger]_vars

\* a ledger made by Blockchain(difficulty), without mining or with the hardest
InitTamper ==
    /\ now = 0
    /\ \E d \in {0, MaxDifficulty} : blockchain = Blockchain(d, now)
    /\ store = Absent
    /\ peer = Absent
    /\ tampered = NotTampered
    /\ last = NoOp
    /\ requests = NoRequests
    /\ file_manager = MainInstance

NextTamper ==
    \/ NextLedger
    \/ \E i \in 0..(MaxLen - 1), field \in BlockKeys :
           /\ i < len(blockchain)
           /\ \E v \in FieldValues(blockchain.chain, field) : TamperLedger(i, field, v)
    \/ ValidateLedger

\* a ledger under Create, Append and Remove, one field of which is then
\* changed, and validated
SpecTamper == InitTamper /\ [][NextTamper]_vars

\* a node whose store holds the ledger it saved, of the configured difficulty
\* or of the difficulty of a ledger it adopted
InitStore ==
    /\ now = 0
    /\ \E d \in {BLOCKCHAIN_DIFFICULTY, MaxDifficulty} : blockchain = Blockchain(d, now)
    /\ store = json_dump(to_dict(blockchain))
    /\ peer = Absent
    /\ tampered = NotTampered
    /\ last = NoOp
    /\ requests = NoRequests
    /\ file_manager = MainInstance

NextStore ==
    \/ Tick
    \/ Respond
    \/ /\ Running
       /\ \E f \in FileIds, add \in AddOutcomes, pin \in PinOutcomes, save \in SaveOutcomes :
              UploadFile(f, add, pin, save)
    \/ /\ Running
       /\ \E f \in FileIds, save \in SaveOutcomes : DeleteFile(f, save)
    \/ \E c \in StoreDamage(store) : CorruptStore(c)
    \/ \E write \in SaveOutcomes : Load(write)

\* a node that is stopped and started again, its store damaged in between
SpecStore == InitStore /\ [][NextStore]_vars

NextUploads ==
    \/ Tick
    \/ \E t \in Threads, add \in AddOutcomes : BeginUpload(t, add)
    \/ \E t \in Threads : ReadLatest(t)
    \/ \E t \in Threads : NewBlock(t)
    \/ \E t \in Threads : AppendBlock(t)
    \/ \E t \in Threads : OpenStore(t)
    \/ \E t \in Threads : WriteStore(t)

\* two upload requests handled at the same time on one node
SpecUploads == InitStore /\ [][NextUploads]_vars

NextDigest ==
    \/ Respond
    \/ \E data_a \in DigestPayloads, data_b \in DigestPayloads,
          index \in {0, MaxLen - 1}, timestamp \in {0, MaxTime},
          previous_hash \in {ZeroHash, BogusHash}, nonce \in {0, 1} :
           HashBlocks(data_a, data_b, index, timestamp, previous_hash, nonce)

\* calculate_hash applied to pairs of blocks
SpecDigest == InitLedger /\ [][NextDigest]_vars

NextFront ==
    \/ Tick
    \/ Respond
    \/ \E f \in FileIds : UploadFile(f, "ok", "ok", "ok")
    \/ \E f \in FileIds : DeleteFile(f, "ok")
    \/ \E save \in SaveOutcomes, add \in AddOutcomes, publish \in PublishOutcomes :
           WebPublish(save, add, publish)

\* a node used through the front end: uploads, deletions and publications
SpecFront == InitStore /\ [][NextFront]_vars

\* the file manager after construction on a node whose store is absent or
\* unreadable, the write of the fresh ledger succeeding
InitSequential ==
    /\ now = 0
    /\ \E file \in {Absent, EmptyText, BlankText, GarbageText} :
           LET r == load_or_create_blockchain(file, now, "ok")
           IN  /\ blockchain = r.blockchain
               /\ store = r.store
    /\ peer = Absent
    /\ tampered = NotTampered
    /\ last = NoOp
    /\ requests = NoRequests
    /\ file_manager = MainInstance

NextSequential ==
    \/ Respond
    \/ Load("ok")
    \/ \E f \in FileIds, add \in AddOutcomes, pin \in PinOutcomes :
           UploadFile(f, add, pin, "ok")
    \/ \E f \in FileIds : DeleteFile(f, "ok")
    \/ \E resolve \in ResolveOutcomes, get \in GetOutcomes : SyncUnreached(resolve, get)
    \/ /\ peer # Absent
       /\ \E s \in Served(peer) : SyncFromPeer(s, "ok")
    \/ \E d \in {0, MaxDifficulty} : PeerPublish(d)
    \/ \E f \in FileIds : PeerUploadFile(f)
    \/ \E f \in FileIds : PeerDeleteFile(f)

\* one operation at a time on a node whose writes of the store succeed
SpecSequential == InitSequential /\ [][NextSequential]_vars

NextNodes ==
    \/ Respond
    \/ \E f \in FileIds : UploadFile(f, "ok", "ok", "ok")
    \/ \E resolve \in ResolveOutcomes, get \in GetOutcomes : SyncUnreached(resolve, get)
    \/ /\ peer # Absent
       /\ \E s \in Served(peer), save \in SaveOutcomes : SyncFromPeer(s, save)
    \/ \E resolve \in ResolveOutcomes, get \in GetOutcomes, save \in SaveOutcomes :
           SyncAgain(resolve, get, save)
    \/ SyncBack
    \/ \E d \in {0, MaxDifficulty} : PeerPublish(d)
    \/ \E f \in FileIds : PeerUploadFile(f)

\* two nodes that upload files and sync from each other
SpecNodes == Init /\ [][NextNodes]_vars

\* a server process whose global file_manager is still None, on a node
\* whose store is absent, empty, a saved ledger, or a document without chain
InitRequests ==
    /\ now = 0
    /\ blockchain = NoLedger
    /\ store \in {Absent, EmptyText, MissingChain}
                \cup {json_dump(to_dict(Blockchain(d, 0))) :
                         d \in {BLOCKCHAIN_DIFFICULTY, MaxDifficulty}}
    /\ peer = Absent
    /\ tampered = NotTampered
    /\ last = NoOp
    /\ requests = NoRequests
    /\ file_manager = None

NextRequests ==
    \/ Tick
    \/ \E t \in Threads : TestNone(t)
    \/ \E t \in Threads, write \in SaveOutcomes, connect \in ConnectOutcomes :
           Construct(t, write, connect)
    \/ \E t \in Threads : Assign(t)
    \/ \E t \in Threads : Return(t)

\* the first requests of a server process, each calling init_file_manager
SpecRequests == InitRequests /\ [][NextRequests]_vars

(***************************************************************************)
(* Properties                                                              *)
(***************************************************************************)
\* the two pairwise conditions of chain validity, for every position i >= 1
ChainLinked(chain) ==
    \A i \in 1..(Len(chain) - 1) :
        /\ chain[i + 1].hash = calculate_hash(chain[i + 1])
        /\ chain[i + 1].previous_hash = chain[i].hash

\* C1: every ledger made by Create, Append and Remove (accepted or refused)
\* passes is_chain_valid: at every position i >= 1 the stored hash is the
\* recomputed digest and previous_hash is the hash of the entry before.
C1_Closure == is_chain_valid(blockchain) /\ ChainLinked(blockchain.chain)

\* a removal in the middle of the ledger has re-linked its tail
C1_Witness ==
    /\ last.op = "remove_block" /\ last.ret
    /\ last.index < len(last.pre) - 1
    /\ is_chain_valid(blockchain)

\* the operation being returned from is a sync
IsSync == last.op = "sync_from_peer"

\* the sync fetched the snapshot served for the peer
Fetched == IsSync /\ last.resolve = "ok" /\ last.get = "ok"

\* the sync fetched a snapshot and built a ledger from it
Parsed ==
    /\ Fetched
    /\ ~json_load_raises(last.served)
    /\ ~from_dict_raises(json_load(last.served))

\* the ledger built from the fetched snapshot
R == from_dict(json_load(last.served))

\* the local ledger before the operation
L == last.pre

\* the sync reports that it adopted the peer ledger
ReportsSynced == IsSync /\ last.ret.success /\ last.ret.message[1] = "Synced! "

\* the condition of the sync decision rule
PeerAhead ==
    \/ len(R) > len(L)
    \/ /\ len(R) = len(L) /\ len(L) > 0
       /\ R.chain[len(R)].hash # L.chain[len(L)].hash

\* C2: for a fetched peer ledger R that validates, the sync adopts R if and
\* only if R is longer than the local ledger L, or as long with a different
\* hash of the last entry; in every other case L and the store are unchanged.
C2_SyncDecision ==
    (Parsed /\ is_chain_valid(R)) =>
        /\ PeerAhead => blockchain = R
        /\ ~PeerAhead => (blockchain = L /\ store = last.pre_store)
        /\ ReportsSynced <=> (PeerAhead /\ last.save = "ok")
        /\ ~PeerAhead => last.ret.message[1] = "No update needed. "

\* a peer ledger as long as the local one with another last entry was adopted
C2_Witness ==
    /\ Parsed /\ is_chain_valid(R)
    /\ len(R) = len(L) /\ len(L) = MaxSyncLen
    /\ blockchain = R /\ blockchain # L
    /\ ReportsSynced

\* C3: when the sync adopts R, the local entries and difficulty are exactly
\* those of R, no entry that only the old local ledger held is left, and the
\* store holds the serialisation of R.
C3_WholesaleReplace ==
    ReportsSynced =>
        /\ Parsed
        /\ blockchain.chain = R.chain
        /\ blockchain.difficulty = R.difficulty
        /\ \A b \in Range(L.chain) :
               b \notin Range(R.chain) => b \notin Range(blockchain.chain)
        /\ store = json_dump(to_dict(R))
        /\ last.ret.blocks = len(R)

\* an adoption that dropped an entry only the old local ledger held and
\* changed the difficulty
C3_Witness ==
    /\ ReportsSynced
    /\ \E b \in Range(L.chain) : b \notin Range(R.chain)
    /\ len(L) > 1
    /\ R.difficulty # L.difficulty

\* C4: when the fetched peer ledger fails is_chain_valid, the sync returns the
\* failure "Peer blockchain is invalid (tampered)" whatever the two lengths
\* are, and the local ledger and the store are unchanged.
C4_InvalidPeerRejected ==
    (Parsed /\ ~ChainLinked(R.chain)) =>
        /\ last.ret = PeerInvalid
        /\ blockchain = L
        /\ store = last.pre_store

\* an invalid peer ledger longer than the local one was rejected
C4_Witness ==
    /\ Parsed /\ ~ChainLinked(R.chain)
    /\ len(R) > len(L)
    /\ last.ret = PeerInvalid

\* the 0-based positions of the entries whose stored hash is not the digest
\* of their own fields
TamperedEntries(chain) ==
    {i \in 0..(Len(chain) - 1) : chain[i + 1].hash # calculate_hash(chain[i + 1])}

\* C5: the sync rejects every peer ledger that holds one tampered entry, at
\* any position, position 0 included, and leaves the local ledger unchanged.
C5_TamperedPeerRejected ==
    (Parsed /\ Cardinality(TamperedEntries(R.chain)) = 1) =>
        /\ ~last.ret.success
        /\ blockchain = L

\* C6: when resolving the name or fetching the snapshot fails, the sync
\* returns a failure whose message carries the message of the error, and the
\* local ledger and the store are unchanged.
C6_FetchFailure ==
    (IsSync /\ ~Fetched) =>
        /\ ~last.ret.success
        /\ last.ret.message =
               <<"Sync failed: ",
                 IF last.resolve # "ok" THEN ResolveErrorMessage(last.resolve)
                 ELSE GetErrorMessage(last.get)>>
        /\ blockchain = L
        /\ store = last.pre_store

\* the name resolved and fetching the snapshot failed
C6_Witness ==
    /\ IsSync /\ last.resolve = "ok" /\ last.get = "unreachable"
    /\ ~last.ret.success
    /\ len(L) > 1

\* C7: whenever the sync returns a failure, whatever failed, the local ledger
\* in memory is the one before the call.
C7_FailureLeavesLedger == (IsSync /\ ~last.ret.success) => blockchain = L

\* C8: on a valid ledger of length n, remove_block(k) with 0 < k < n
\* succeeds; the result has length n - 1 and validates, and every entry now
\* at a position i >= k has index i, previous_hash the hash of the entry
\* before it, and hash the digest of its fields.
C8_RemoveRelinks ==
    (/\ last.op = "remove_block"
     /\ is_chain_valid(L)
     /\ 0 < last.index /\ last.index < len(L)) =>
        /\ last.ret
        /\ len(blockchain) = len(L) - 1
        /\ is_chain_valid(blockchain)
        /\ \A i \in last.index..(len(blockchain) - 1) :
               /\ blockchain.chain[i + 1].index = i
               /\ blockchain.chain[i + 1].previous_hash = blockchain.chain[i].hash
               /\ blockchain.chain[i + 1].hash = calculate_hash(blockchain.chain[i + 1])

\* the first entry after the genesis entry was removed from a ledger of the
\* greatest length, so that a tail was re-linked
C8_Witness ==
    /\ last.op = "remove_block" /\ last.ret
    /\ last.index = 1 /\ len(L) = MaxLen
    /\ blockchain.chain[2].index = 1

\* C9: remove_block(position) with position <= 0 or position >= length
\* returns False and leaves the ledger as it was; the genesis entry is never
\* removed.
C9_RemoveRefused ==
    last.op = "remove_block" =>
        /\ (last.index <= 0 \/ last.index >= len(L)) =>
               (~last.ret /\ blockchain = L)
        /\ blockchain.chain[1] = L.chain[1]

\* the removal of position 0 of a ledger with more than one entry was refused
C9_Witness ==
    /\ last.op = "remove_block" /\ last.index = 0
    /\ len(L) > 1 /\ ~last.ret

\* C10: after one field of one entry at a position i >= 1 of a valid ledger
\* was changed to another value, is_chain_valid returns False and the first
\* position its scan reports is i.
C10_TamperDetected ==
    (last.op = "is_chain_valid" /\ tampered.pos >= 1) =>
        /\ ~last.ret
        /\ ~last.scan.valid
        /\ last.scan.at = tampered.pos

\* an entry in the middle of the ledger was changed and the scan stopped there
C10_Witness ==
    /\ last.op = "is_chain_valid" /\ ~last.ret
    /\ tampered.pos = 1 /\ len(blockchain) = MaxLen
    /\ last.scan.at = 1

\* the sync took the branch "No update needed. Blockchains are identical"
NoOpBranch ==
    /\ Parsed /\ is_chain_valid(R)
    /\ len(R) = len(L) /\ len(L) > 0
    /\ R.chain[len(R)].hash = L.chain[len(L)].hash
    /\ last.ret.success
    /\ last.ret.message = <<"No update needed. ", "Blockchains are identical">>

\* C11: when the sync takes the no-op branch (the peer ledger validates, is as
\* long as the local one and has the same hash of the last entry), the local
\* and the peer ledger hold the same entry at every position, position 0
\* included.
C11_NoOpIdentical ==
    NoOpBranch =>
        \A i \in 0..(len(L) - 1) :
            \A k \in BlockKeys :
                ~Differs(k, L.chain[i + 1][k], R.chain[i + 1][k])

\* the first entry of a ledger is the genesis entry
IsGenesis(b) ==
    /\ SortKeys(b.data) = SortKeys(GenesisData)
    /\ b.previous_hash = ZeroHash

\* C16: in every state of the local ledger, after any sequence of creation,
\* append, removal and sync adoption, the ledger is not empty and its first
\* entry is the genesis entry: payload {"message": "Genesis Block"} and
\* previous_hash "0".
C16_GenesisFirst ==
    /\ len(blockchain) > 0
    /\ IsGenesis(blockchain.chain[1])

\* C17: in every state of the local ledger, after any sequence of creation,
\* append, removal and sync adoption, the entry at index i of the sequence
\* has its position field equal to i.
C17_PositionsContiguous ==
    \A i \in 0..(len(blockchain) - 1) : blockchain.chain[i + 1].index = i

\* C18: every entry, the genesis entry included, of a ledger made by Create,
\* Append and Remove at any difficulty has a stored hash equal to the digest
\* recomputed from its index, timestamp, data, previous_hash and nonce.
C18_HashIsDigest ==
    \A j \in DOMAIN blockchain.chain :
        blockchain.chain[j].hash = sha256(json_dumps(blockchain.chain[j]))

\* a removal at a positive difficulty left a mined entry behind a re-linked one
C18_Witness ==
    /\ last.op = "remove_block" /\ last.ret
    /\ blockchain.difficulty > 0
    /\ len(blockchain) = MaxLen - 1
    /\ \E j \in DOMAIN blockchain.chain : blockchain.chain[j].nonce > 0

\* C19: after a successful remove_block(k) on a ledger of difficulty d > 0,
\* every entry at a position >= k of the result has a hash with d leading
\* '0' characters that is the digest recomputed from its fields.
C19_RemoveReseals ==
    (last.op = "remove_block" /\ last.ret /\ blockchain.difficulty > 0) =>
        \A i \in last.index..(len(blockchain) - 1) :
            /\ blockchain.chain[i + 1].hash.lead >= blockchain.difficulty
            /\ blockchain.chain[i + 1].hash = sha256(json_dumps(blockchain.chain[i + 1]))

\* block b is sealed under difficulty d: for d > 0 its hash has d leading '0'
\* characters and its nonce is the first, counting from 0, whose digest has;
\* for d = 0 its nonce is 0 and its hash the digest the constructor computed
Sealed(b, d) ==
    /\ b.hash = sha256(json_dumps(b))
    /\ IF d = 0 THEN b.nonce = 0
       ELSE /\ b.hash.lead >= d
            /\ \A n \in 0..(b.nonce - 1) :
                   sha256(json_dumps([b EXCEPT !.nonce = n])).lead < d

\* C20: the genesis entry after Blockchain(d) and every entry add_block
\* returns are sealed under d.
C20_SealedOnCreateAndAppend ==
    /\ Sealed(blockchain.chain[1], blockchain.difficulty)
    /\ last.op = "add_block" =>
           /\ last.ret = blockchain.chain[len(blockchain)]
           /\ Sealed(last.ret, blockchain.difficulty)

\* an append at a positive difficulty that had to step the nonce
C20_Witness ==
    /\ last.op = "add_block"
    /\ blockchain.difficulty > 0
    /\ last.ret.nonce > 0
    /\ last.ret.hash.lead >= blockchain.difficulty

\* the operation being returned from is a load, and every write it made went
\* through
IsLoad == last.op = "load" /\ last.write = "ok"

\* C13: whatever the store holds (nothing, white space, text that does not
\* parse, or a document of the wrong structure: no entry list, an entry
\* without a field, not a mapping), the load raises nothing and yields a
\* usable ledger, the parsed one or a fresh genesis-only one.
C13_LoadNeverRaises ==
    IsLoad =>
        /\ ~last.raised
        /\ len(blockchain) > 0
        /\ \/ blockchain = Blockchain(BLOCKCHAIN_DIFFICULTY, last.t)
           \/ /\ HoldsLedger(last.pre_store)
              /\ blockchain = from_dict(json_load(last.pre_store))

\* the store did not exist, was empty or white space, or did not parse
Unreadable(file) == file.kind \in {"absent", "text"}

\* C14: when the store does not exist, is empty or white space only, or does
\* not parse, the load returns a fresh ledger of exactly one genesis entry
\* with the configured difficulty, and the store then holds that ledger's
\* serialisation.
C14_FreshLedgerPersisted ==
    (IsLoad /\ Unreadable(last.pre_store)) =>
        /\ ~last.raised
        /\ len(blockchain) = 1
        /\ blockchain.difficulty = BLOCKCHAIN_DIFFICULTY
        /\ blockchain.chain[1] =
               mine_block(Block(0, last.t, GenesisData, ZeroHash), BLOCKCHAIN_DIFFICULTY)
        /\ store.kind = "json"
        /\ store.value.difficulty = BLOCKCHAIN_DIFFICULTY
        /\ Len(store.value.chain) = 1
        /\ \A k \in BlockKeys : store.value.chain[1][k] = blockchain.chain[1][k]

\* a longer ledger of another difficulty was replaced by a fresh one after
\* its store was emptied
C14_Witness ==
    /\ IsLoad /\ last.pre_store = BlankText
    /\ len(L) = MaxSyncLen /\ L.difficulty # BLOCKCHAIN_DIFFICULTY
    /\ len(blockchain) = 1
    /\ last.t > 0

\* ledgers a and b are equal field by field
SameLedger(a, b) ==
    /\ a.difficulty = b.difficulty
    /\ len(a) = len(b)
    /\ \A j \in 1..len(a) : \A k \in BlockKeys : a.chain[j][k] = b.chain[j][k]

\* C15: for a valid ledger, from_dict(to_dict(L)) and a load after a save
\* give a ledger of the same difficulty and length with, entry by entry in
\* order, the same index, timestamp, data, previous_hash, nonce and hash.
C15_RoundTrip ==
    /\ (Running /\ is_chain_valid(blockchain)) =>
           SameLedger(from_dict(to_dict(blockchain)), blockchain)
    /\ (IsLoad /\ L # NoLedger /\ is_chain_valid(L)
          /\ last.pre_store = save_blockchain(L, last.pre_store, "ok")) =>
           /\ ~last.raised
           /\ SameLedger(blockchain, L)
           /\ store = last.pre_store

\* a saved ledger of the greatest length holding a mined entry was loaded
C15_Witness ==
    /\ IsLoad /\ L # NoLedger /\ ~last.raised
    /\ last.pre_store = save_blockchain(L, last.pre_store, "ok")
    /\ len(L) = MaxSyncLen
    /\ \E j \in 1..len(L) : L.chain[j].nonce > 0
    /\ SameLedger(blockchain, L)

\* both upload requests returned their metadata
BothUploaded ==
    \A t \in Threads : requests[t].pc = "done" /\ ~requests[t].raised

\* C12: for every interleaving of two concurrent uploads on one node, the
\* ledger holds both new entries at distinct consecutive positions, passes
\* is_chain_valid, and the store holds both entries.
C12_UploadsSerialized ==
    BothUploaded =>
        /\ len(blockchain) = 3
        /\ \A t \in Threads : Cardinality(Carriers(blockchain, FileOf(t))) = 1
        /\ \A i \in 0..(len(blockchain) - 1) : blockchain.chain[i + 1].index = i
        /\ is_chain_valid(blockchain)
        /\ HoldsLedger(store)
        /\ \A t \in Threads : Carriers(from_dict(json_load(store)), FileOf(t)) # {}

\* C21: add_block(data) on a ledger of length n returns the new entry; the
\* ledger then has length n + 1 with that entry last, carrying index n, the
\* given data and the hash of the entry that was last as previous_hash; the
\* n earlier entries are unchanged and the store is not written.
C21_AppendFrame ==
    last.op = "add_block" =>
        /\ len(blockchain) = len(L) + 1
        /\ last.ret = blockchain.chain[len(blockchain)]
        /\ last.ret.index = len(L)
        /\ last.ret.data = last.data
        /\ last.ret.previous_hash = L.chain[len(L)].hash
        /\ SubSeq(blockchain.chain, 1, len(L)) = L.chain
        /\ blockchain.difficulty = L.difficulty
        /\ store = Absent

\* an entry was appended behind another appended entry
C21_Witness ==
    /\ last.op = "add_block"
    /\ len(L) = MaxLen - 1
    /\ len(blockchain) = MaxLen
    /\ last.ret.previous_hash # blockchain.chain[1].hash

\* C22: whenever a call to the blob store (add, get, pin) or to the name
\* service (resolve) fails during an operation, the caller gets an error or
\* a failure result; an upload whose pin step fails does not report success.
C22_FailuresSurface ==
    /\ (last.op = "upload_file" /\ (last.add # "ok" \/ last.pin # "ok")) =>
           last.ret.raised
    /\ (IsSync /\ ~Fetched) => ~last.ret.success

\* C24: whenever delete_file returns True the ledger is one entry shorter
\* and the first entry that carried file_id is gone; when remove_block
\* refuses the removal delete_file does not report success.
C24_DeleteReportsRemoval ==
    (last.op = "delete_file" /\ ~last.ret.raised /\ last.ret.ret) =>
        /\ len(blockchain) = len(L) - 1
        /\ L.chain[Min(Carriers(L, last.file_id)) + 1] \notin Range(blockchain.chain)
        /\ ~RemoveRefused(L, Min(Carriers(L, last.file_id)))

\* C26: every local ledger reached by creation, uploads, deletions and syncs
\* against any peer snapshot (valid, tampered, shorter, longer, as long)
\* satisfies the two pairwise conditions at every position i >= 1 and
\* passes is_chain_valid, also after uploads and deletions on an adopted
\* ledger.
C26_SyncPreservesValidity ==
    /\ ChainLinked(blockchain.chain)
    /\ ValidateFrom(blockchain.chain, ScanStart).valid
    /\ is_chain_valid(blockchain)

\* an upload or a deletion changed a ledger adopted from a tampered snapshot
C26_Witness ==
    /\ last.op \in {"upload_file", "delete_file"}
    /\ ~last.ret.raised
    /\ TamperedEntries(L.chain) # {}
    /\ blockchain # L
    /\ is_chain_valid(blockchain)

\* C30: on every return of sync_from_peer after the snapshot was written to
\* its temporary file (adopted, no update needed, peer invalid, snapshot not
\* parseable or of the wrong structure) the temporary file has been removed.
C30_TempFileRemoved == Fetched => ~last.temp_file

\* the keys of a dict
Keys(d) == {d[i][1] : i \in DOMAIN d}

\* dicts a and b hold the same keys with the same values, nested dicts
\* compared the same way
DictEq(a, b) ==
    /\ Keys(a) = Keys(b)
    /\ \A i \in DOMAIN a, j \in DOMAIN b :
           a[i][1] = b[j][1] =>
               IF a[i][1] \in NestedKeys
               THEN Range(a[i][2]) = Range(b[j][2])
               ELSE a[i][2] = b[j][2]

\* C23: two entries with equal index, timestamp, previous_hash and nonce and
\* logically equal payloads (the same keys and values at every nesting
\* level, inserted in different orders) have the same hash, whatever hash
\* each has stored.
C23_DigestDeterminism ==
    (last.op = "calculate_hash" /\ DictEq(last.a.data, last.b.data)) =>
        last.hash_a = last.hash_b

\* two payloads that differ in insertion order at both levels were hashed
C23_Witness ==
    /\ last.op = "calculate_hash"
    /\ DictEq(last.a.data, last.b.data)
    /\ last.a.data[1][1] # last.b.data[1][1]
    /\ "meta" \in Keys(last.a.data)
    /\ \E i \in DOMAIN last.a.data, j \in DOMAIN last.b.data :
           /\ last.a.data[i][1] = "meta" /\ last.b.data[j][1] = "meta"
           /\ last.a.data[i][2] # last.b.data[j][2]
    /\ last.a.hash # last.b.hash
    /\ last.hash_a = last.hash_b

\* C25: when publish_blockchain succeeds (snapshot saved, added to the blob
\* store and bound in the name service) the front end's publish operation
\* answers with success and the published name, never with an error.
C25_PublishReportsSuccess ==
    (last.op = "publish" /\ ~last.ret.raised /\ last.published # Absent) =>
        /\ last.response.success
        /\ last.response.status = 200
        /\ last.response.ipns = last.ret.value

\* an operation of the file manager that may write the store has completed
Completed == last.op \in {"load", "upload_file", "delete_file", "sync_from_peer"}

\* C29: in sequential use with store writes that succeed, after Load and
\* after every completed upload_file, delete_file and sync_from_peer the
\* content of the store is the serialization of the ledger in memory.
C29_StoreTracksMemory ==
    /\ Running
    /\ store = json_dump(to_dict(blockchain))
    /\ Completed => from_dict(json_load(store)) = blockchain

\* a deletion has removed an entry of a ledger adopted from the peer, and
\* the store holds the ledger without it
C29_Witness ==
    /\ last.op = "delete_file"
    /\ len(blockchain) < len(last.pre)
    /\ last.pre_store # store
    /\ blockchain.difficulty = MaxDifficulty
    /\ store = json_dump(to_dict(blockchain))

\* a second sync has returned
IsSecondSync == IsSync /\ "first" \in DOMAIN last

\* the first of the two syncs resolved the name and fetched the snapshot
FirstFetched == last.first.resolve = "ok" /\ last.first.get = "ok"

\* the second sync left the ledger as the first left it and adopted nothing
SecondChangesNothing ==
    /\ blockchain = last.pre
    /\ store = last.pre_store
    /\ ~ReportsSynced

\* C28 as stated: a second sync_from_peer against the same unchanged peer
\* snapshot leaves the ledger as the first call left it and never adopts.
C28_SyncIdempotent == IsSecondSync => SecondChangesNothing

\* C28: when the first sync_from_peer resolved the name and fetched the
\* snapshot, a second call served the same snapshot leaves the ledger as the
\* first call left it and never adopts.
C28_SyncIdempotentOnceFetched ==
    (IsSecondSync /\ FirstFetched) => SecondChangesNothing

\* the first sync adopted the snapshot and the second fetched it again
C28_Witness ==
    /\ IsSecondSync
    /\ FirstFetched
    /\ Fetched
    /\ last.first.ret.success
    /\ last.first.ret.message[1] = "Synced! "
    /\ last.first.pre # blockchain
    /\ last.ret.message[1] = "No update needed. "

\* C27: two nodes with valid ledgers, each sync reading the other's ledger
\* as last published: after the node syncs from the peer and the peer syncs
\* from the node, both hold entry by entry the same ledger.
C27_TwoNodeConvergence ==
    (/\ last.op = "sync_back"
     /\ last.first.tampered = NotTampered
     /\ is_chain_valid(last.first.pre)
     /\ is_chain_valid(last.pre)) =>
        blockchain.chain = from_dict(json_load(peer)).chain

\* C31: a successful remove_block(k) leaves every entry below k as it was,
\* keeps the order of the remaining entries and the data, timestamp and nonce
\* of every entry after the cut (their index, previous_hash and hash may
\* change), and leaves the difficulty of the ledger as it was.
C31_RemoveFrame ==
    (last.op = "remove_block" /\ last.ret) =>
        /\ len(blockchain) = len(L) - 1
        /\ blockchain.difficulty = L.difficulty
        /\ \A i \in 0..(last.index - 1) : blockchain.chain[i + 1] = L.chain[i + 1]
        /\ \A i \in last.index..(len(blockchain) - 1) :
               /\ blockchain.chain[i + 1].data = L.chain[i + 2].data
               /\ blockchain.chain[i + 1].timestamp = L.chain[i + 2].timestamp
               /\ blockchain.chain[i + 1].nonce = L.chain[i + 2].nonce

\* an entry was removed from the middle of a ledger of the greatest length
\* whose entries around the cut differ in data and in timestamp
C31_Witness ==
    /\ last.op = "remove_block" /\ last.ret
    /\ last.index = 1 /\ len(L) = MaxLen
    /\ L.chain[2].data # L.chain[3].data
    /\ L.chain[2].timestamp # L.chain[3].timestamp
    /\ blockchain.chain[2].data = L.chain[3].data
    /\ blockchain.chain[2].hash # L.chain[3].hash

\* C32: when add_file fails during upload_file the error reaches the caller
\* and no entry is appended: the ledger in memory and the store are the ones
\* before the call.
C32_FailedPutAppendsNothing ==
    (last.op = "upload_file" /\ last.add # "ok") =>
        /\ last.ret.raised
        /\ last.ret.message = "Failed to add file to IPFS"
        /\ blockchain = last.pre
        /\ store = last.pre_store

\* add_file failed on a node whose store an earlier failed write had cut
\* short: the ledger is not grown and the store is not rewritten
C32_Witness ==
    /\ last.op = "upload_file" /\ last.add = "failed"
    /\ last.ret.raised
    /\ last.pre_store = GarbageText
    /\ store = GarbageText
    /\ Carriers(blockchain, last.file_id) = {}
    /\ blockchain = last.pre

\* the threads that constructed an IPFSFileManager
Constructors == {t \in Threads : "instance" \in DOMAIN requests[t]}

\* the threads to which init_file_manager returned an instance
Served_By_Init == {t \in Threads : requests[t].pc = "done" /\ ~requests[t].raised}

\* C33: for every interleaving of concurrent first requests,
\* init_file_manager constructs at most one IPFSFileManager and returns that
\* same instance to every caller.
C33_SingleInstance ==
    /\ Cardinality(Constructors) <= 1
    /\ \A t \in Served_By_Init, u \in Served_By_Init :
           requests[t].ret = requests[u].ret

====
